---------------------------- MODULE Spec2Model ----------------------------
(***************************************************************************)
(* Model of the two dashboards of the repository:                          *)
(*                                                                         *)
(*   pricing-visualization.py  an ipywidgets notebook: six input widgets,  *)
(*                             two slider observers, and the function      *)
(*                             update_profit_curve run by                  *)
(*                             widgets.interactive on every value change;  *)
(*   app.py                    a Streamlit script, rerun from top to       *)
(*                             bottom whenever one of its inputs changes.  *)
(*                                                                         *)
(* Numbers.  The programs compute in binary floating point; the model      *)
(* computes the same expressions in exact arithmetic:                      *)
(*   - a price grid is the sequence of its numerators over GridDen;        *)
(*   - a quantity series is a sequence of integer numerators over one      *)
(*     positive denominator kept beside it (sales_den);                    *)
(*   - a money series is a sequence of wide integers over profit_den; a    *)
(*     wide integer <<hi, lo>> stands for hi * WideBase + lo with          *)
(*     0 <= lo < WideBase, since the products exceed 32 bits;              *)
(*   - the price elasticity is held in tenths (the slider's step is 0.1);  *)
(*   - the margin of error is held by its square, an exact rational, and   *)
(*     a confidence bound is a linear form c0 + c1 * margin_of_error.      *)
(***************************************************************************)
EXTENDS Integers, Sequences

VARIABLES
    program,                  \* which of the two scripts this run executes
    \* ---- pricing-visualization.py: widget values
    min_price_slider,
    max_price_slider,
    fixed_cost_slider,
    variable_cost_slider,
    price_elasticity_slider,  \* in tenths: 10 stands for 1.0
    specified_price_input,
    pending,                  \* observer callbacks still to run, in call order
    result,                   \* outcome of the last update_profit_curve call
    \* ---- app.py: input widget values and the variables of the last rerun
    population_size,
    variable_cost,
    fixed_cost,
    survey_sample_size,
    pmc,
    pme,
    user_price,
    run

notebook_vars == <<min_price_slider, max_price_slider, fixed_cost_slider,
                   variable_cost_slider, price_elasticity_slider,
                   specified_price_input, pending, result>>

app_vars == <<population_size, variable_cost, fixed_cost, survey_sample_size,
              pmc, pme, user_price, run>>

vars == <<program, notebook_vars, app_vars>>

NOTEBOOK == "pricing-visualization.py"

APP == "app.py"

(***************************************************************************)
(* Exact arithmetic helpers.                                               *)
(***************************************************************************)
Abs(a) == IF a < 0 THEN -a ELSE a

Sgn(a) == IF a < 0 THEN -1 ELSE IF a > 0 THEN 1 ELSE 0

WideBase == 10000 * 10000

HalfBase == 100 * 100

WNeg(x) == IF x[2] = 0 THEN <<-x[1], 0>> ELSE <<-x[1] - 1, WideBase - x[2]>>

WAdd(x, y) ==
    LET lo == x[2] + y[2]
    IN  <<x[1] + y[1] + (lo \div WideBase), lo % WideBase>>

WSub(x, y) == WAdd(x, WNeg(y))

\* a * b for |a| < 2 * 10^9 and |b| < 10^8, by halves of four digits
WMul(a, b) ==
    LET A   == Abs(a)
        B   == Abs(b)
        a1  == A \div HalfBase
        a0  == A % HalfBase
        b1  == B \div HalfBase
        b0  == B % HalfBase
        mid == a1 * b0 + a0 * b1
        lo  == (mid % HalfBase) * HalfBase + a0 * b0
        mag == <<a1 * b1 + (mid \div HalfBase) + (lo \div WideBase), lo % WideBase>>
    IN  IF Sgn(a) * Sgn(b) < 0 THEN WNeg(mag) ELSE mag

\* the outcome of rounding carried by a computed value (see computed): the side
\* of the exact value on which binary64 leaves it; 0 for an exact value
RoundingOf(x) == IF Len(x) > 2 THEN x[3] ELSE 0

\* x < y: by the exact parts, and by the outcome of rounding when these are equal
WLess(x, y) ==
    \/ x[1] < y[1]
    \/ x[1] = y[1] /\ x[2] < y[2]
    \/ x[1] = y[1] /\ x[2] = y[2] /\ RoundingOf(x) < RoundingOf(y)

WZero == <<0, 0>>

WNonNeg(x) == ~WLess(x, WZero)

RECURSIVE GCD(_, _)
GCD(a, b) == IF b = 0 THEN a ELSE GCD(b, a % b)

\* a rational [num, den] in lowest terms with den > 0
RNorm(n, d) ==
    LET g == GCD(Abs(n), Abs(d))
    IN  [num |-> Sgn(d) * (n \div g), den |-> Abs(d) \div g]

RMul(x, y) ==
    LET g1 == GCD(Abs(x.num), y.den)
        g2 == GCD(Abs(y.num), x.den)
        xn == IF x.num = 0 THEN 0 ELSE x.num \div g1
        yd == IF x.num = 0 THEN 1 ELSE y.den \div g1
        yn == IF y.num = 0 THEN 0 ELSE y.num \div g2
        xd == IF y.num = 0 THEN 1 ELSE x.den \div g2
    IN  RNorm(xn * yn, xd * yd)

RLess(x, y) ==
    LET g == GCD(x.den, y.den)
    IN  x.num * (y.den \div g) < y.num * (x.den \div g)

(***************************************************************************)
(* numpy helpers.                                                          *)
(***************************************************************************)
NumPoints == 100

GridDen == NumPoints - 1

\* np.linspace(start, stop, NumPoints): start + i * (stop - start) / (NumPoints - 1),
\* as numerators over GridDen
linspace(start, stop) ==
    [i \in 1..NumPoints |-> GridDen * start + (i - 1) * (stop - start)]

\* np.argmax over a[lo..hi]: the index of the maximum, the first one on ties.
\* The range is halved instead of scanned so that the evaluation stays shallow;
\* the left half wins unless the right half holds a strictly greater entry.
RECURSIVE ArgMaxIn(_, _, _)
ArgMaxIn(a, lo, hi) ==
    IF lo = hi THEN lo
    ELSE LET mid   == (lo + hi) \div 2
             left  == ArgMaxIn(a, lo, mid)
             right == ArgMaxIn(a, mid + 1, hi)
         IN  IF WLess(a[left], a[right]) THEN right ELSE left

\* the index of the maximum, the last one on ties
RECURSIVE ArgMaxLastIn(_, _, _)
ArgMaxLastIn(a, lo, hi) ==
    IF lo = hi THEN lo
    ELSE LET mid   == (lo + hi) \div 2
             left  == ArgMaxLastIn(a, lo, mid)
             right == ArgMaxLastIn(a, mid + 1, hi)
         IN  IF WLess(a[right], a[left]) THEN left ELSE right

argmax_last(a) == ArgMaxLastIn(a, 1, Len(a))

\* np.argmax (1-based here)
argmax(a) == ArgMaxIn(a, 1, Len(a))

\* np.max
amax(a) == a[argmax(a)]

\* the entries that hold the maximum of the exact series
Maximisers(a) ==
    LET top == amax(a)
    IN  {k \in 1..Len(a) : a[k] = top}

\* entries i and j of price * quantity - (cost * quantity + fixed) are computed
\* from the same floating-point operands, or from a zero quantity (every product
\* is then exactly 0), so that binary64 gives both the same value
same_operands(prices, sales, i, j) ==
    sales[i] = sales[j] /\ (prices[i] = prices[j] \/ sales[i] = 0)

\* entry i is price * quantity - (cost * quantity + fixed) with an exact value
\* of 0 that binary64 computes without error: every quantity is 0 (a slope of
\* -0 / width, so every product is 0), or the price is the cost itself at an end
\* of the grid (np.linspace returns its ends exactly), so that both products
\* are the same number
computed_exactly(prices, sales, var_cost, i) ==
    \/ \A k \in 1..Len(sales) : sales[k] = 0
    \/ /\ prices[i] = var_cost * GridDen
       /\ prices[i] = prices[1] \/ prices[i] = prices[Len(prices)]

\* the sides of its exact value on which rounding can leave a computed value
Signs == {-1, 0, 1}

\* The outcomes of binary64 rounding that the program can observe, as the side
\* of its exact value on which each maximum is left (0 at every other entry).
\* np.max(profit) < 0 (app.py line 237) observes the sign of a maximum whose
\* exact value is 0: the computed value can be below 0, 0 or above 0, unless
\* it is computed without error (computed_exactly).  np.argmax observes the
\* order of two maxima whose exact values are equal (two grid prices at the
\* same distance from the vertex of the profit parabola): both round alike, or
\* the entries computed like entry w end above the others.  Entries computed
\* from the same operands always round alike.
Roundings(prices, sales, profit, var_cost) ==
    LET M       == Maximisers(profit)
        first   == argmax(profit)
        zero    == profit[first] = WZero
        alike   == \A k \in M : same_operands(prices, sales, first, k)
        none    == [i \in 1..Len(profit) |-> 0]
        all(r)  == [i \in 1..Len(profit) |-> IF i \in M THEN r ELSE 0]
        up(w)   == [i \in 1..Len(profit) |->
                      IF i \in M /\ same_operands(prices, sales, i, w) THEN 1 ELSE 0]
        each(f) == [i \in 1..Len(profit) |-> IF i \in M THEN f[i] ELSE 0]
        sides   == {f \in [M -> Signs] :
                      \A i, j \in M : /\ computed_exactly(prices, sales, var_cost, i)
                                         => f[i] = 0
                                      /\ same_operands(prices, sales, i, j) => f[i] = f[j]}
    IN  IF alike
        THEN IF zero /\ ~computed_exactly(prices, sales, var_cost, first)
             THEN {all(r) : r \in Signs}
             ELSE {none}
        ELSE IF zero THEN {each(f) : f \in sides}
        ELSE {none} \cup {up(w) : w \in M}

\* the series as computed: the exact value, then the outcome of rounding
computed(profit, rounding) ==
    [i \in 1..Len(profit) |-> profit[i] \o <<rounding[i]>>]

RECURSIVE MinIn(_, _, _)
MinIn(a, lo, hi) ==
    IF lo = hi THEN a[lo]
    ELSE LET mid   == (lo + hi) \div 2
             left  == MinIn(a, lo, mid)
             right == MinIn(a, mid + 1, hi)
         IN  IF right < left THEN right ELSE left

RECURSIVE MaxIn(_, _, _)
MaxIn(a, lo, hi) ==
    IF lo = hi THEN a[lo]
    ELSE LET mid   == (lo + hi) \div 2
             left  == MaxIn(a, lo, mid)
             right == MaxIn(a, mid + 1, hi)
         IN  IF right > left THEN right ELSE left

\* the builtins min(prices) and max(prices)
min(a) == MinIn(a, 1, Len(a))

max(a) == MaxIn(a, 1, Len(a))

(***************************************************************************)
(* pricing-visualization.py                                                *)
(***************************************************************************)
max_sales_quantity == 1000

min_sales_quantity == 200

NoResult ==
    [status |-> "none", min_price |-> 0, max_price |-> 0, fixed_cost |-> 0,
     variable_cost |-> 0, price_elasticity |-> 0, specified_price |-> 0,
     prices |-> <<>>, sales_den |-> 1, sales_quantity |-> <<>>,
     profit_den |-> 1, profit |-> <<>>, gross_margin |-> [num |-> 0, den |-> 1],
     price_deviation |-> "", specified_profit |-> WZero,
     optimal_index |-> 0, optimal_price |-> 0, optimal_profit |-> WZero]

\* line 37: (min_sales_quantity - max_sales_quantity) / (max_price - min_price)
\* * price_elasticity, the elasticity in tenths; the denominator is kept positive
demand_slope(min_price, max_price, price_elasticity) ==
    LET width == max_price - min_price
    IN  [num |-> Sgn(width) * (min_sales_quantity - max_sales_quantity) * price_elasticity,
         den |-> Abs(width) * 10]

\* lines 38: max_sales_quantity + demand_slope * (prices - min_price),
\* numerators over slope.den * GridDen
sales_quantity_of(prices, slope, min_price) ==
    [i \in 1..Len(prices) |->
        max_sales_quantity * slope.den * GridDen
            + slope.num * (prices[i] - GridDen * min_price)]

\* lines 41-43: profit = prices * sales_quantity - (variable_cost * sales_quantity
\* + fixed_cost), wide numerators over sales_den * GridDen
profit_of(prices, sales, sales_den, var_cost, fix_cost) ==
    LET fixed == WMul(sales_den * GridDen, fix_cost)
    IN  [i \in 1..Len(prices) |->
            LET total_revenue == WMul(sales[i], prices[i])
                total_costs   == WAdd(WMul(sales[i], var_cost * GridDen), fixed)
            IN  WSub(total_revenue, total_costs)]

\* lines 46-49
gross_margin_of(specified_price, var_cost) ==
    IF specified_price > var_cost
    THEN [num |-> (specified_price - var_cost) * 100, den |-> specified_price]
    ELSE [num |-> 0, den |-> 1]

\* the classification with the boundaries excluded from the range
price_deviation_strict(specified_price, min_price, max_price) ==
    IF specified_price <= min_price THEN "below the minimum acceptable price"
    ELSE IF specified_price >= max_price THEN "above the maximum acceptable price"
    ELSE "within the acceptable range"

\* lines 52-57
price_deviation_of(specified_price, min_price, max_price) ==
    IF specified_price < min_price THEN "below the minimum acceptable price"
    ELSE IF specified_price > max_price THEN "above the maximum acceptable price"
    ELSE "within the acceptable range"

\* line 60, wide numerator over slope.den
specified_profit_of(specified_price, slope, min_price, var_cost, fix_cost) ==
    LET quantity == max_sales_quantity * slope.den
                        + slope.num * (specified_price - min_price)
    IN  WSub(WMul(quantity, specified_price),
             WAdd(WMul(slope.den, fix_cost), WMul(quantity, var_cost)))

\* lines 30-75: the computation of update_profit_curve.  Python raises
\* ZeroDivisionError at line 37 when max_price = min_price, after the grid of
\* line 32 has been built; nothing below line 37 is then computed.  The value
\* is the set of the outcomes of one evaluation: one for each rounding.
update_profit_curve(min_price, max_price, fix_cost, var_cost, price_elasticity, specified_price) ==
    LET prices == linspace(var_cost, max_price)
        args   == [NoResult EXCEPT !.min_price = min_price,
                                   !.max_price = max_price,
                                   !.fixed_cost = fix_cost,
                                   !.variable_cost = var_cost,
                                   !.price_elasticity = price_elasticity,
                                   !.specified_price = specified_price,
                                   !.prices = prices]
    IN  IF max_price - min_price = 0
        THEN {[args EXCEPT !.status = "ZeroDivisionError"]}
        ELSE LET slope     == demand_slope(min_price, max_price, price_elasticity)
                 sales_den == slope.den * GridDen
                 sales     == sales_quantity_of(prices, slope, min_price)
                 exact     == profit_of(prices, sales, sales_den, var_cost, fix_cost)
                 outcome(rounding) ==
                   LET profit == computed(exact, rounding)
                       best   == argmax(profit)
                   IN  [args EXCEPT
                    !.status = "ok",
                    !.sales_den = sales_den,
                    !.sales_quantity = sales,
                    !.profit_den = sales_den * GridDen,
                    !.profit = profit,
                    !.gross_margin = gross_margin_of(specified_price, var_cost),
                    !.price_deviation =
                        price_deviation_of(specified_price, min_price, max_price),
                    !.specified_profit =
                        specified_profit_of(specified_price, slope, min_price,
                                            var_cost, fix_cost),
                    !.optimal_index = best,
                    !.optimal_price = prices[best],
                    !.optimal_profit = amax(profit)]
             IN  {outcome(rounding) : rounding \in Roundings(prices, sales, exact, var_cost)}


\* values the user can give each widget (samples of the widget's range)
PriceValues == {1, 80, 200, 500}

FixedCostValues == {0, 10000}

VariableCostValues == {50, 65, 200}

ElasticityValues == {10, 20}

SpecifiedPriceValues == {80, 150, 501}

\* the validation attached after widgets.interactive instead of before it
ObserversOfMinLate == <<"interactive_update", "update_min_price">>

\* the callbacks a value change of each slider runs, in registration order
\* (lines 26-27, then line 124)
ObserversOfMin == <<"update_min_price", "interactive_update">>

ObserversOfMax == <<"update_max_price", "interactive_update">>

ObserversOfOther == <<"interactive_update">>

NotebookInit ==
    /\ min_price_slider = 80
    /\ max_price_slider = 200
    /\ fixed_cost_slider = 10000
    /\ variable_cost_slider = 50
    /\ price_elasticity_slider = 10
    /\ specified_price_input = 150
    /\ pending = ObserversOfOther
    /\ result = NoResult

Idle == program = NOTEBOOK /\ pending = <<>>

UserSetsMinPrice ==
    /\ Idle
    /\ \E v \in PriceValues \ {min_price_slider} :
          min_price_slider' = v
    /\ pending' = ObserversOfMin
    /\ UNCHANGED <<program, max_price_slider, fixed_cost_slider, variable_cost_slider,
                   price_elasticity_slider, specified_price_input, result, app_vars>>

UserSetsMaxPrice ==
    /\ Idle
    /\ \E v \in PriceValues \ {max_price_slider} :
          max_price_slider' = v
    /\ pending' = ObserversOfMax
    /\ UNCHANGED <<program, min_price_slider, fixed_cost_slider, variable_cost_slider,
                   price_elasticity_slider, specified_price_input, result, app_vars>>

UserSetsFixedCost ==
    /\ Idle
    /\ \E v \in FixedCostValues \ {fixed_cost_slider} :
          fixed_cost_slider' = v
    /\ pending' = ObserversOfOther
    /\ UNCHANGED <<program, min_price_slider, max_price_slider, variable_cost_slider,
                   price_elasticity_slider, specified_price_input, result, app_vars>>

UserSetsVariableCost ==
    /\ Idle
    /\ \E v \in VariableCostValues \ {variable_cost_slider} :
          variable_cost_slider' = v
    /\ pending' = ObserversOfOther
    /\ UNCHANGED <<program, min_price_slider, max_price_slider, fixed_cost_slider,
                   price_elasticity_slider, specified_price_input, result, app_vars>>

UserSetsElasticity ==
    /\ Idle
    /\ \E v \in ElasticityValues \ {price_elasticity_slider} :
          price_elasticity_slider' = v
    /\ pending' = ObserversOfOther
    /\ UNCHANGED <<program, min_price_slider, max_price_slider, fixed_cost_slider,
                   variable_cost_slider, specified_price_input, result, app_vars>>

UserSetsSpecifiedPrice ==
    /\ Idle
    /\ \E v \in SpecifiedPriceValues \ {specified_price_input} :
          specified_price_input' = v
    /\ pending' = ObserversOfOther
    /\ UNCHANGED <<program, min_price_slider, max_price_slider, fixed_cost_slider,
                   variable_cost_slider, price_elasticity_slider, result, app_vars>>

\* lines 17-19.  The assignment of line 19 is itself a value change of the
\* slider: its observers run, nested, before the callbacks still pending.
update_min_price ==
    /\ program = NOTEBOOK
    /\ pending # <<>>
    /\ Head(pending) = "update_min_price"
    /\ IF min_price_slider > max_price_slider
       THEN /\ min_price_slider' = max_price_slider
            /\ pending' = ObserversOfMin \o Tail(pending)
       ELSE /\ min_price_slider' = min_price_slider
            /\ pending' = Tail(pending)
    /\ UNCHANGED <<program, max_price_slider, fixed_cost_slider, variable_cost_slider,
                   price_elasticity_slider, specified_price_input, result, app_vars>>

\* lines 21-23
update_max_price ==
    /\ program = NOTEBOOK
    /\ pending # <<>>
    /\ Head(pending) = "update_max_price"
    /\ IF max_price_slider < min_price_slider
       THEN /\ max_price_slider' = min_price_slider
            /\ pending' = ObserversOfMax \o Tail(pending)
       ELSE /\ max_price_slider' = max_price_slider
            /\ pending' = Tail(pending)
    /\ UNCHANGED <<program, min_price_slider, fixed_cost_slider, variable_cost_slider,
                   price_elasticity_slider, specified_price_input, result, app_vars>>

\* lines 124-130: widgets.interactive calls update_profit_curve with the
\* current value of every widget
interactive_update ==
    /\ program = NOTEBOOK
    /\ pending # <<>>
    /\ Head(pending) = "interactive_update"
    /\ result' \in update_profit_curve(min_price_slider, max_price_slider,
                                       fixed_cost_slider, variable_cost_slider,
                                       price_elasticity_slider, specified_price_input)
    /\ pending' = Tail(pending)
    /\ UNCHANGED <<program, min_price_slider, max_price_slider, fixed_cost_slider,
                   variable_cost_slider, price_elasticity_slider,
                   specified_price_input, app_vars>>

(***************************************************************************)
(* app.py                                                                  *)
(***************************************************************************)
\* line 55: p = 0.5
p == [num |-> 1, den |-> 2]

\* line 58: z_score = 1.96
z_score == [num |-> 196, den |-> 100]

\* a linear form c0 + c1 * margin_of_error
Lin(c0, c1) == [c0 |-> c0, c1 |-> c1]

LinSub(x, y) == Lin(x.c0 - y.c0, x.c1 - y.c1)

LinAdd(x, y) == Lin(x.c0 + y.c0, x.c1 + y.c1)

LinScale(x, k) == Lin(x.c0 * k, x.c1 * k)

\* the value margin_of_error itself
TheMargin == Lin(0, 1)

\* the standard margin with the factor p * (1 - p) left out: z_score^2 / survey_sample_size
standard_margin_sq_without_p(n) == RMul(RMul(z_score, z_score), RNorm(1, n))

\* line 61, squared: z_score^2 * (p * (1 - p)) / survey_sample_size
standard_margin_sq(n) ==
    RMul(RMul(z_score, z_score),
         RNorm(p.num * (p.den - p.num), p.den * p.den * n))

\* the branch of line 64 with n <= N in place of n < N
fpc_applies_inclusive(n, N) == n > 0 /\ N > 0 /\ n <= N

\* line 64
fpc_applies(n, N) == n > 0 /\ N > 0 /\ n < N

\* the correction with the divisor population_size in place of population_size - 1
fpc_factor_sq_plain(n, N) == RNorm(N - n, N)

\* line 65, squared: (population_size - survey_sample_size) / (population_size - 1)
fpc_factor_sq(n, N) == RNorm(N - n, N - 1)

\* the interval with the margin taken as an absolute amount: anchor -+ margin_of_error
confidence_interval_absolute(anchor) ==
    [lower |-> LinSub(Lin(anchor, 0), TheMargin),
     upper |-> LinAdd(Lin(anchor, 0), TheMargin)]

\* lines 69-70: (anchor - margin_of_error * anchor, anchor + margin_of_error * anchor)
confidence_interval(anchor) ==
    [lower |-> LinSub(Lin(anchor, 0), LinScale(TheMargin, anchor)),
     upper |-> LinAdd(Lin(anchor, 0), LinScale(TheMargin, anchor))]

Undefined == [defined |-> FALSE, value |-> [num |-> 0, den |-> 1]]

\* lines 138-142: assigned only when user_price > variable_cost
break_even_quantity_of(price, var_cost, fix_cost) ==
    IF price > var_cost
    THEN [defined |-> TRUE, value |-> RNorm(fix_cost, price - var_cost)]
    ELSE Undefined

\* the guard of the plot marker with >= in place of >
plot_marker_shown_inclusive(price, var_cost) == price >= var_cost

\* line 215: the plot marker, which reads break_even_quantity at lines 217-220
plot_marker_shown(price, var_cost) == price > var_cost

\* line 239: the reflection text, which reads break_even_quantity at line 240
reflection_shown(price, var_cost) == price > var_cost

\* line 243, inside the branch of line 239: break_even_quantity > 0.2 * population_size
tip_shown(quantity, N) == 5 * quantity.value.num > N * quantity.value.den

\* the lines at which one run reads break_even_quantity, in order
break_even_reads(price, var_cost) ==
    (IF plot_marker_shown(price, var_cost) THEN <<217>> ELSE <<>>)
    \o (IF reflection_shown(price, var_cost) THEN <<240, 243>> ELSE <<>>)

\* line 166: int(population_size * 0.1)
segment_max_sales_quantity(N) == N \div 10

\* line 167: (-max_sales_quantity) / (max(prices) - min(prices)); the prices being
\* numerators over GridDen, this is the slope per 1/GridDen of a euro
segment_demand_slope(prices, max_q) ==
    [num |-> -max_q, den |-> max(prices) - min(prices)]

\* lines 168-169: np.maximum(max_sales_quantity + demand_slope * (prices -
\* min(prices)), 0), numerators over slope.den
segment_sales_quantity(prices, slope, max_q) ==
    LET lowest == min(prices)
    IN  [i \in 1..Len(prices) |->
            LET q == max_q * slope.den + slope.num * (prices[i] - lowest)
            IN  IF q > 0 THEN q ELSE 0]

\* lines 172-174: profit = prices * sales_quantity - (variable_cost *
\* sales_quantity + fixed_cost), wide numerators over sales_den * GridDen
segment_profit(prices, sales, sales_den, var_cost, fix_cost) ==
    LET fixed == WMul(sales_den * GridDen, fix_cost)
    IN  [i \in 1..Len(prices) |->
            LET revenue              == WMul(sales[i], prices[i])
                total_variable_costs == WMul(sales[i], var_cost * GridDen)
            IN  WSub(revenue, WAdd(total_variable_costs, fixed))]

\* line 237: np.max(profit) < 0
no_break_even(profit) == WLess(amax(profit), WZero)

NoRun ==
    [status |-> "none", population_size |-> 0, variable_cost |-> 0, fixed_cost |-> 0,
     survey_sample_size |-> 0, pmc |-> 0, pme |-> 0, user_price |-> 0,
     standard_margin_sq |-> [num |-> 0, den |-> 1],
     fpc_applied |-> FALSE, fpc_divisor |-> 0,
     fpc_factor_sq |-> [num |-> 1, den |-> 1],
     margin_of_error_sq |-> [num |-> 0, den |-> 1],
     confidence_interval_pmc |-> [lower |-> Lin(0, 0), upper |-> Lin(0, 0)],
     confidence_interval_pme |-> [lower |-> Lin(0, 0), upper |-> Lin(0, 0)],
     break_even_quantity |-> Undefined,
     break_even_divisor |-> 0,
     break_even_reads |-> <<>>,
     tip_shown |-> FALSE,
     prices |-> <<>>, sales_den |-> 1, sales_quantity |-> <<>>,
     profit_den |-> 1, profit |-> <<>>,
     optimal_index |-> 0, optimal_price |-> 0,
     no_break_even_error |-> FALSE]

\* one run of the script, top to bottom.  Python raises ZeroDivisionError at
\* line 65 if the branch of line 64 is entered with population_size = 1, and
\* NameError at the first read of break_even_quantity that finds it unassigned.
\* The value is the set of the outcomes of one run: one for each rounding.
script(N, var_cost, fix_cost, n, anchor_pmc, anchor_pme, price) ==
    LET inputs   == [NoRun EXCEPT !.population_size = N,
                                  !.variable_cost = var_cost,
                                  !.fixed_cost = fix_cost,
                                  !.survey_sample_size = n,
                                  !.pmc = anchor_pmc,
                                  !.pme = anchor_pme,
                                  !.user_price = price,
                                  !.standard_margin_sq = standard_margin_sq(n),
                                  !.fpc_applied = fpc_applies(n, N),
                                  !.fpc_divisor = N - 1]
    IN  IF fpc_applies(n, N) /\ N - 1 = 0
        THEN {[inputs EXCEPT !.status = "ZeroDivisionError"]}
        ELSE LET factor    == IF fpc_applies(n, N) THEN fpc_factor_sq(n, N)
                              ELSE [num |-> 1, den |-> 1]
                 prices    == linspace(50, 200)
                 max_q     == segment_max_sales_quantity(N)
                 slope     == segment_demand_slope(prices, max_q)
                 sales     == segment_sales_quantity(prices, slope, max_q)
                 exact     == segment_profit(prices, sales, slope.den, var_cost, fix_cost)
                 quantity  == break_even_quantity_of(price, var_cost, fix_cost)
                 reads     == break_even_reads(price, var_cost)
                 outcome(rounding) ==
                   LET profit == computed(exact, rounding)
                       best   == argmax(profit)
                   IN  [inputs EXCEPT
                    !.status = IF reads # <<>> /\ ~quantity.defined
                               THEN "NameError" ELSE "ok",
                    !.fpc_factor_sq = factor,
                    !.margin_of_error_sq = RMul(standard_margin_sq(n), factor),
                    !.confidence_interval_pmc = confidence_interval(anchor_pmc),
                    !.confidence_interval_pme = confidence_interval(anchor_pme),
                    !.break_even_quantity = quantity,
                    !.break_even_divisor = price - var_cost,
                    !.break_even_reads = reads,
                    !.tip_shown = reflection_shown(price, var_cost) /\ quantity.defined
                                  /\ tip_shown(quantity, N),
                    !.prices = prices,
                    !.sales_den = slope.den,
                    !.sales_quantity = sales,
                    !.profit_den = slope.den * GridDen,
                    !.profit = profit,
                    !.optimal_index = best,
                    !.optimal_price = prices[best],
                    !.no_break_even_error = no_break_even(profit)]
             IN  {outcome(rounding) : rounding \in Roundings(prices, sales, exact, var_cost)}

\* values the user can give each input (samples of the input's range)
MaxSmallSize == 2

PopulationSizes == (1..MaxSmallSize) \cup {99, 10000}

SampleSizes == (1..MaxSmallSize) \cup {49, 300}

CostValues == {1, 50}

FixedCosts == {0, 66000}

PmcValues == {70, 100}

PmeValues == {0, 130}

UserPrices == {50, 100}

AppInit ==
    /\ population_size = 10000
    /\ variable_cost = 50
    /\ fixed_cost = 0
    /\ survey_sample_size = 300
    /\ pmc = 70
    /\ pme = 130
    /\ user_price = 100
    /\ run \in script(10000, 50, 0, 300, 70, 130, 100)

\* Streamlit reruns the whole script with the new value of the changed input
Rerun ==
    run' \in script(population_size', variable_cost', fixed_cost', survey_sample_size',
                  pmc', pme', user_price')

UserSetsPopulationSize ==
    /\ program = APP
    /\ \E v \in PopulationSizes \ {population_size} : population_size' = v
    /\ UNCHANGED <<variable_cost, fixed_cost, survey_sample_size, pmc, pme, user_price>>
    /\ Rerun
    /\ UNCHANGED <<program, notebook_vars>>

UserSetsCost ==
    /\ program = APP
    /\ \E v \in CostValues \ {variable_cost} : variable_cost' = v
    /\ UNCHANGED <<population_size, fixed_cost, survey_sample_size, pmc, pme, user_price>>
    /\ Rerun
    /\ UNCHANGED <<program, notebook_vars>>

UserSetsFixedCostInput ==
    /\ program = APP
    /\ \E v \in FixedCosts \ {fixed_cost} : fixed_cost' = v
    /\ UNCHANGED <<population_size, variable_cost, survey_sample_size, pmc, pme, user_price>>
    /\ Rerun
    /\ UNCHANGED <<program, notebook_vars>>

UserSetsSampleSize ==
    /\ program = APP
    /\ \E v \in SampleSizes \ {survey_sample_size} : survey_sample_size' = v
    /\ UNCHANGED <<population_size, variable_cost, fixed_cost, pmc, pme, user_price>>
    /\ Rerun
    /\ UNCHANGED <<program, notebook_vars>>

UserSetsPmc ==
    /\ program = APP
    /\ \E v \in PmcValues \ {pmc} : pmc' = v
    /\ UNCHANGED <<population_size, variable_cost, fixed_cost, survey_sample_size, pme, user_price>>
    /\ Rerun
    /\ UNCHANGED <<program, notebook_vars>>

UserSetsPme ==
    /\ program = APP
    /\ \E v \in PmeValues \ {pme} : pme' = v
    /\ UNCHANGED <<population_size, variable_cost, fixed_cost, survey_sample_size, pmc, user_price>>
    /\ Rerun
    /\ UNCHANGED <<program, notebook_vars>>

UserSetsPrice ==
    /\ program = APP
    /\ \E v \in UserPrices \ {user_price} : user_price' = v
    /\ UNCHANGED <<population_size, variable_cost, fixed_cost, survey_sample_size, pmc, pme>>
    /\ Rerun
    /\ UNCHANGED <<program, notebook_vars>>

(***************************************************************************)
(* A run executes one of the two scripts.                                  *)
(***************************************************************************)
Init ==
    /\ program \in {NOTEBOOK, APP}
    /\ NotebookInit
    /\ AppInit

Next ==
    \/ UserSetsMinPrice
    \/ UserSetsMaxPrice
    \/ UserSetsFixedCost
    \/ UserSetsVariableCost
    \/ UserSetsElasticity
    \/ UserSetsSpecifiedPrice
    \/ update_min_price
    \/ update_max_price
    \/ interactive_update
    \/ UserSetsPopulationSize
    \/ UserSetsCost
    \/ UserSetsFixedCostInput
    \/ UserSetsSampleSize
    \/ UserSetsPmc
    \/ UserSetsPme
    \/ UserSetsPrice

Spec == Init /\ [][Next]_vars

(***************************************************************************)
(* Claims.                                                                 *)
(***************************************************************************)
Evaluated == result.status # "none"

Computed == result.status = "ok"

Ran == run.status = "ok"

Points == 1..NumPoints

\* C1: whenever update_profit_curve is evaluated with min_price = max_price,
\* the evaluation fails with a DegenerateRangeError (and with nothing else).
C1_DegenerateRangeError ==
    (Evaluated /\ result.min_price = result.max_price)
        => result.status = "DegenerateRangeError"

\* C2: for valid demand parameters (max_price > min_price, elasticity > 0) every
\* entry of the sales-quantity series is >= 0, in the notebook and in app.py.
C2_QuantitiesNonNegative ==
    /\ (Computed /\ result.max_price > result.min_price /\ result.price_elasticity > 0)
          => \A i \in Points : result.sales_quantity[i] >= 0
    /\ Ran => \A i \in Points : run.sales_quantity[i] >= 0

StrictlyIncreasing(a) == \A i \in 1..(Len(a) - 1) : a[i] < a[i + 1]

\* C3: the price grid of every evaluation is strictly increasing with length
\* >= 2; a grid whose ceiling is <= its floor is never built as it stands.
C3_GridStrictlyIncreasing ==
    /\ Evaluated => (Len(result.prices) >= 2 /\ StrictlyIncreasing(result.prices))
    /\ Ran => (Len(run.prices) >= 2 /\ StrictlyIncreasing(run.prices))

\* C4 as claimed, on the break-even result the program reports (app.py lines
\* 138-142, break_even_quantity): it is present when some grid point has a
\* profit >= 0 and absent exactly when no grid point has a profit >= 0.
C4_BreakEvenSearch ==
    Ran =>
      (run.break_even_quantity.defined <=> \E i \in Points : WNonNeg(run.profit[i]))

IsFirstMaximum(a, k) ==
    /\ k \in 1..Len(a)
    /\ \A j \in 1..Len(a) : ~WLess(a[k], a[j])
    /\ \A j \in 1..(k - 1) : WLess(a[j], a[k])

\* C5: the optimal point is a grid entry whose profit is >= the profit of every
\* other entry of the series, and of several entries sharing the maximum it is
\* the one with the lowest index, in the notebook and in app.py.
C5_OptimalPoint ==
    /\ Computed =>
          /\ IsFirstMaximum(result.profit, result.optimal_index)
          /\ result.optimal_price = result.prices[result.optimal_index]
          /\ result.optimal_profit = result.profit[result.optimal_index]
    /\ Ran =>
          /\ IsFirstMaximum(run.profit, run.optimal_index)
          /\ run.optimal_price = run.prices[run.optimal_index]

C5_Witness ==
    /\ program = APP
    /\ Ran
    /\ run.optimal_index = 1
    /\ \E j \in Points : j > 1 /\ run.profit[j] = run.profit[run.optimal_index]

\* C6 as claimed: whenever the correction applies (0 < n < N), the corrected
\* margin of error is strictly less than the uncorrected one.
C6_FpcStrictlyReduces ==
    (Ran /\ run.fpc_applied)
        => RLess(run.margin_of_error_sq, run.standard_margin_sq)

\* C6: whenever the correction applies, the corrected margin of error is
\* strictly less than the uncorrected one if n > 1 and equal to it if n = 1.
C6_FpcReducesUnlessSingleSample ==
    (Ran /\ run.fpc_applied)
        => IF run.survey_sample_size > 1
           THEN RLess(run.margin_of_error_sq, run.standard_margin_sq)
           ELSE run.margin_of_error_sq = run.standard_margin_sq

C6_Witness ==
    /\ program = APP
    /\ Ran
    /\ run.fpc_applied
    /\ run.survey_sample_size = 1
    /\ run.population_size = 2
    /\ run.margin_of_error_sq = run.standard_margin_sq

\* C7: the correction (N - n) / (N - 1) is applied to the squared margin exactly
\* when 0 < n < N; when N <= n the margin stays z^2 * p * (1 - p) / n and the
\* run raises nothing; the divisor N - 1 is not zero where the correction applies.
C7_FpcBranch ==
    run.status # "none" =>
      LET n        == run.survey_sample_size
          N        == run.population_size
          standard == RNorm(196 * 196, 100 * 100 * 4 * n)
      IN  /\ run.status = "ok"
          /\ run.standard_margin_sq = standard
          /\ run.fpc_applied <=> (0 < n /\ n < N)
          /\ run.fpc_applied =>
                /\ run.fpc_divisor # 0
                /\ run.margin_of_error_sq = RMul(standard, RNorm(N - n, N - 1))
          /\ ~run.fpc_applied => run.margin_of_error_sq = standard

C7_Witness ==
    /\ program = APP
    /\ Ran
    /\ run.population_size = 1
    /\ run.survey_sample_size >= run.population_size
    /\ ~run.fpc_applied
    /\ run.margin_of_error_sq = run.standard_margin_sq

\* the value of a linear form at a rational margin of error
LinValue(x, margin) == RNorm(x.c0 * margin.den + x.c1 * margin.num, margin.den)

OneTenth == [num |-> 1, den |-> 10]

\* C8: each confidence interval is exactly (anchor * (1 - moe), anchor * (1 + moe)),
\* the lower bound unclamped; anchor = 100 with moe = 0.1 gives (90, 110).
C8_ConfidenceInterval ==
    Ran =>
      /\ run.confidence_interval_pmc.lower = LinScale(Lin(1, -1), run.pmc)
      /\ run.confidence_interval_pmc.upper = LinScale(Lin(1, 1), run.pmc)
      /\ run.confidence_interval_pme.lower = LinScale(Lin(1, -1), run.pme)
      /\ run.confidence_interval_pme.upper = LinScale(Lin(1, 1), run.pme)
      /\ (run.pmc = 100 /\ run.margin_of_error_sq = RMul(OneTenth, OneTenth)) =>
            /\ LinValue(run.confidence_interval_pmc.lower, OneTenth) = [num |-> 90, den |-> 1]
            /\ LinValue(run.confidence_interval_pmc.upper, OneTenth) = [num |-> 110, den |-> 1]

C8_Witness ==
    /\ program = APP
    /\ Ran
    /\ run.pmc = 100
    /\ run.margin_of_error_sq = RMul(OneTenth, OneTenth)
    /\ LinValue(run.confidence_interval_pmc.lower, OneTenth) = [num |-> 90, den |-> 1]

BelowRange == "below the minimum acceptable price"

WithinRange == "within the acceptable range"

AboveRange == "above the maximum acceptable price"

\* C9: the specified price is classified as exactly one of BelowRange,
\* WithinRange, AboveRange: below iff price < min_price, above iff price >
\* max_price, within otherwise; a price equal to either end is within.
C9_RangeClassification ==
    Computed =>
      /\ result.price_deviation \in {BelowRange, WithinRange, AboveRange}
      /\ result.price_deviation = BelowRange <=> result.specified_price < result.min_price
      /\ result.price_deviation = AboveRange <=> result.specified_price > result.max_price
      /\ (result.specified_price = result.min_price
            \/ result.specified_price = result.max_price)
           => result.price_deviation = WithinRange

C9_Witness ==
    /\ program = NOTEBOOK
    /\ Computed
    /\ result.specified_price = result.min_price
    /\ result.specified_price < result.max_price
    /\ result.price_deviation = WithinRange

SliderObserverPending ==
    \E k \in 1..Len(pending) : pending[k] \in {"update_min_price", "update_max_price"}

\* C10: once the slider observers have run, min_price_slider.value <=
\* max_price_slider.value, and update_profit_curve is never evaluated with
\* min_price > max_price.
C10_SlidersOrdered ==
    /\ ~SliderObserverPending => min_price_slider <= max_price_slider
    /\ Evaluated => result.min_price <= result.max_price

C10_Witness ==
    /\ program = NOTEBOOK
    /\ pending = <<>>
    /\ min_price_slider = max_price_slider
    /\ Evaluated
    /\ result.min_price = 200
    /\ result.max_price = 200


\* C11: break_even_quantity is assigned exactly in the runs with
\* user_price > variable_cost, it is read (plot marker, reflection text, tip)
\* only in those runs, so no read finds it unassigned; when assigned it is
\* fixed_cost / (user_price - variable_cost), with a divisor > 0 and a value >= 0.
C11_BreakEvenQuantityGuarded ==
    /\ run.status # "NameError"
    /\ Ran =>
         /\ run.break_even_quantity.defined <=> run.user_price > run.variable_cost
         /\ run.break_even_reads # <<>> => run.user_price > run.variable_cost
         /\ run.tip_shown => run.user_price > run.variable_cost
         /\ run.break_even_quantity.defined =>
               /\ run.break_even_divisor > 0
               /\ run.break_even_quantity.value
                    = RNorm(run.fixed_cost, run.user_price - run.variable_cost)
               /\ run.break_even_quantity.value.num >= 0
               /\ run.break_even_quantity.value.den > 0

C11_Witness ==
    /\ program = APP
    /\ Ran
    /\ run.break_even_quantity.defined
    /\ run.break_even_quantity.value = [num |-> 1320, den |-> 1]
    /\ run.break_even_reads = <<217, 240, 243>>
    /\ run.tip_shown

One == [num |-> 1, den |-> 1]

\* 0.98 squared
MaxMarginSq == RMul([num |-> 98, den |-> 100], [num |-> 98, den |-> 100])

\* c0 + c1 * margin >= 0 for the margin >= 0 whose square is marginSq
LinNonNeg(x, marginSq) ==
    LET ratio == RMul(RNorm(x.c1 * x.c1, x.c0 * x.c0), marginSq)
    IN  IF x.c1 = 0 \/ marginSq.num = 0 THEN x.c0 >= 0
        ELSE IF x.c0 = 0 THEN x.c1 > 0
        ELSE IF x.c1 > 0 THEN x.c0 > 0 \/ ~RLess(ratio, One)
        ELSE x.c0 > 0 /\ ~RLess(One, ratio)

\* lower <= anchor <= upper and 0 <= lower
IntervalOrdered(interval, anchor, marginSq) ==
    /\ LinNonNeg(interval.lower, marginSq)
    /\ LinNonNeg(LinSub(Lin(anchor, 0), interval.lower), marginSq)
    /\ LinNonNeg(LinSub(interval.upper, Lin(anchor, 0)), marginSq)

\* C12: for every admissible input (survey_sample_size >= 1, population_size >= 1,
\* pmc >= 0, pme >= 0) the margin of error is between 0 and 0.98, so each
\* confidence interval has 0 <= lower <= anchor <= upper: no lower bound is negative.
C12_MarginAtMost098 ==
    Ran =>
      /\ run.margin_of_error_sq.num >= 0
      /\ run.margin_of_error_sq.den > 0
      /\ ~RLess(MaxMarginSq, run.margin_of_error_sq)
      /\ RLess(MaxMarginSq, One)
      /\ IntervalOrdered(run.confidence_interval_pmc, run.pmc, run.margin_of_error_sq)
      /\ IntervalOrdered(run.confidence_interval_pme, run.pme, run.margin_of_error_sq)

C12_Witness ==
    /\ program = APP
    /\ Ran
    /\ run.survey_sample_size = 1
    /\ run.margin_of_error_sq = MaxMarginSq
    /\ run.pmc > 0
    /\ run.pme = 0
    /\ run.confidence_interval_pme.lower = Lin(0, 0)

====
